---- MODULE Spec2Model ----
(***************************************************************************)
(* Model of cacheable/cache.py: the Cacheable base class (fingerprint,     *)
(* cache-folder resolution, compute/load lifecycle) together with the      *)
(* concrete types A, B and C and the mutable Params object of the script   *)
(* at the end of the file.                                                 *)
(*                                                                         *)
(* Strings are TLA+ strings.  A name joined with "_" is kept as the        *)
(* sequence of its "_"-separated components, so "_".join(xs) is the        *)
(* sequence itself and a run tag is the sequence of its components ("" is  *)
(* the empty sequence).  sha1(..).hexdigest() is modelled as a             *)
(* collision-free digest: the string "sha1(" s ")".                        *)
(***************************************************************************)
EXTENDS Integers, Sequences, FiniteSets, TLC

VARIABLES cut, listing, content, inst, last, calls,
          hp, hq, hd1, hd2, fp1, fp2,
          env, proc, registry, nested

vars == <<cut, listing, content, inst, last, calls,
          hp, hq, hd1, hd2, fp1, fp2,
          env, proc, registry, nested>>

cacheVars == <<cut, listing, content, inst, last, calls>>
hashVars == <<hp, hq, hd1, hd2, fp1, fp2>>
toolVars == <<proc, registry, nested>>

(***************************************************************************)
(* Bounds of the model.                                                    *)
(***************************************************************************)
MaxCalls == 3

(***************************************************************************)
(* Parameter values.  A value has a Python type and a text; str(value) is  *)
(* its text, so the string "1" and the integer 1 are different values with *)
(* the same serialization.                                                 *)
(***************************************************************************)
StrVal(s) == [t |-> "str", s |-> s]
IntVal(s) == [t |-> "int", s |-> s]

Values == {StrVal("x"), StrVal("1"), IntVal("1")}

Str(v) == v.s

None == [kind |-> "none"]

ParamNames == {"A1", "A2", "A3", "B1", "C1", "C2"}

Classes == {"A", "B", "C"}

PlainTags == {<<>>, <<"first", "tag">>}

Params ==
    [run_tag |-> <<"first", "tag">>,
     A1 |-> StrVal("x"), A2 |-> StrVal("x"), A3 |-> StrVal("x"),
     B1 |-> StrVal("x"), C1 |-> StrVal("x"), C2 |-> StrVal("x")]

(***************************************************************************)
(* The class attributes name, depends_on_obj and depends_on_params of the  *)
(* three concrete types, in declaration order, and the payload file each   *)
(* type reads and writes.                                                  *)
(***************************************************************************)
DeclA == [name |-> "A", depends_on_obj |-> <<>>,
          depends_on_params |-> <<"A1", "A2", "A3">>]

DeclB == [name |-> "B", depends_on_obj |-> <<>>,
          depends_on_params |-> <<"A3", "B1">>]

DeclC == [name |-> "C", depends_on_obj |-> <<"A", "B">>,
          depends_on_params |-> <<"C1", "C2">>]

Decl(c) == CASE c = "A" -> DeclA [] c = "B" -> DeclB [] c = "C" -> DeclC

(***************************************************************************)
(* hashlib.sha1(s.encode()).hexdigest(), collision-free.                   *)
(***************************************************************************)
Sha1(s) == "sha1(" \o s \o ")"

ClassRepr(c) == "<class '__main__." \o c \o "'>"

RECURSIVE Join(_, _)
Join(sep, xs) ==
    IF xs = <<>> THEN ""
    ELSE IF Len(xs) = 1 THEN xs[1]
    ELSE xs[1] \o sep \o Join(sep, Tail(xs))

(***************************************************************************)
(* Cacheable.hash for a type given by its declaration: the lines of the    *)
(* dependencies in declaration order, then the lines of the parameters in  *)
(* declaration order, joined by "\n" and digested.  A dependency is named  *)
(* in d.depends_on_obj and looked up with deps.                            *)
(***************************************************************************)
HashWithoutObjects(d, deps, p) ==
    LET parLines == [i \in 1..Len(d.depends_on_params) |->
                        d.depends_on_params[i] \o ": "
                          \o Sha1(Str(p[d.depends_on_params[i]]))]
    IN  Sha1(Join("\n", parLines))

RECURSIVE HashWithRunTag(_, _, _)
HashWithRunTag(d, deps, p) ==
    LET objLines == [i \in 1..Len(d.depends_on_obj) |->
                        ClassRepr(d.depends_on_obj[i]) \o ": "
                          \o HashWithRunTag(deps[d.depends_on_obj[i]], deps, p)]
        parLines == [i \in 1..Len(d.depends_on_params) |->
                        d.depends_on_params[i] \o ": "
                          \o Sha1(Str(p[d.depends_on_params[i]]))]
        tagLine == <<"run_tag: " \o Sha1(Join("_", p.run_tag))>>
    IN  Sha1(Join("\n", objLines \o parLines \o tagLine))

RECURSIVE HashDecl(_, _, _)
HashDecl(d, deps, p) ==
    LET objLines == [i \in 1..Len(d.depends_on_obj) |->
                        ClassRepr(d.depends_on_obj[i]) \o ": "
                          \o HashDecl(deps[d.depends_on_obj[i]], deps, p)]
        parLines == [i \in 1..Len(d.depends_on_params) |->
                        d.depends_on_params[i] \o ": "
                          \o Sha1(Str(p[d.depends_on_params[i]]))]
    IN  Sha1(Join("\n", objLines \o parLines))

RepoDecls == [c \in Classes |-> Decl(c)]

hash(c, p) == HashDecl(Decl(c), RepoDecls, p)

(***************************************************************************)
(* re.match(rf"{name}_(.*_)?{hash}", folder.name): anchored at the start   *)
(* only.  The folder name begins with name and "_", and the digest begins  *)
(* right there or right after a later "_"; what follows the digest is not  *)
(* looked at.                                                              *)
(***************************************************************************)
ReMatch(name, h, folder) ==
    /\ Len(folder) >= 2
    /\ folder[1] = name
    /\ \E i \in 2..Len(folder) : folder[i] = h

(***************************************************************************)
(* The file system under CACHE_FOLDER is fs = [listing, content]:          *)
(* listing[c] is the directory listing of <CACHE_FOLDER>/<c> in the order  *)
(* iterdir() yields it, content[folder] the files of a cache folder.       *)
(*                                                                         *)
(* Cacheable.find_cache_folder: the first entry of the listing that        *)
(* matches, or False (Found is its truth value).                           *)
(***************************************************************************)
MatchesOwnTag(fs, c, p) ==
    LET own == <<Decl(c).name>>
                 \o (IF Len(p.run_tag) > 0 THEN p.run_tag ELSE <<>>)
                 \o <<hash(c, p)>>
    IN  {i \in 1..Len(fs.listing[c]) : fs.listing[c][i] = own}

Matches(fs, c, p) ==
    LET pattern == <<Decl(c).name, hash(c, p)>>
    IN  {i \in 1..Len(fs.listing[c]) :
            ReMatch(pattern[1], pattern[2], fs.listing[c][i])}

Found(fs, c, p) == Len(fs.listing[c]) > 0 /\ Matches(fs, c, p) # {}

find_cache_folder(fs, c, p) ==
    LET m == Matches(fs, c, p)
    IN  fs.listing[c][CHOOSE i \in m : \A j \in m : i <= j]

(***************************************************************************)
(* The folder name built by cache_folder on a miss:                        *)
(* "_".join([name] + ([run_tag] if run_tag else []) + [hash]).             *)
(***************************************************************************)
FolderNameAlwaysTagged(c, p) ==
    <<Decl(c).name>> \o (IF Len(p.run_tag) > 0 THEN p.run_tag ELSE <<"">>)
        \o <<hash(c, p)>>

folder_name(c, p) ==
    <<Decl(c).name>> \o (IF Len(p.run_tag) > 0 THEN p.run_tag ELSE <<>>)
        \o <<hash(c, p)>>

(***************************************************************************)
(* params_to_json: the snapshot params.json holds every field of params.   *)
(***************************************************************************)
params_to_json(p) == [kind |-> "json", v |-> p]

NoFolder == [snapshot |-> None, payload |-> None]

Exists(fs, path) == path \in DOMAIN fs.content

Insert(s, k, x) == SubSeq(s, 1, k - 1) \o <<x>> \o SubSeq(s, k, Len(s))

(***************************************************************************)
(* path.mkdir(parents=True, exist_ok=True): a new entry appears in the     *)
(* parent's listing at position k (the order of iterdir() is up to the     *)
(* file system); an existing folder is left alone.                         *)
(***************************************************************************)
mkdir(fs, c, path, k) ==
    IF Exists(fs, path) THEN fs
    ELSE [listing |-> [fs.listing EXCEPT ![c] = Insert(@, k, path)],
          content |-> [x \in DOMAIN fs.content \cup {path} |->
                          IF x = path THEN NoFolder ELSE fs.content[x]]]

(***************************************************************************)
(* The configuration cache_folder reads first: CACHE_FOLDER from           *)
(* os.environ, else from the merge of example.env and .env (the later file *)
(* wins).  Without a value cache_folder raises ValueError before it looks  *)
(* at the file system.                                                     *)
(***************************************************************************)
Root == [kind |-> "path", s |-> "./cache"]

Sources == {"environ", "dot_env", "example_env"}

dotenv_config(e) == IF e.dot_env # None THEN e.dot_env ELSE e.example_env

EnvironOrDefault(e) == IF e.environ # None THEN e.environ ELSE Root

cache_root(e) == IF e.environ # None THEN e.environ ELSE dotenv_config(e)

config_missing(e) == cache_root(e) = None

(***************************************************************************)
(* The property Cacheable.cache_folder: the existing folder when one       *)
(* matches; otherwise a new folder, with params.json written unless it is  *)
(* there.  The result is the path, the file system afterwards and whether  *)
(* a folder was made.                                                      *)
(***************************************************************************)
cache_folder(fs, c, p, k) ==
    IF Found(fs, c, p)
    THEN [path |-> find_cache_folder(fs, c, p), fs |-> fs, made |-> FALSE]
    ELSE LET path == folder_name(c, p)
             fs1 == mkdir(fs, c, path, k)
             fs2 == IF fs1.content[path].snapshot = None
                    THEN [fs1 EXCEPT !.content[path].snapshot = params_to_json(p)]
                    ELSE fs1
         IN  [path |-> path, fs |-> fs2, made |-> ~Exists(fs, path)]

(***************************************************************************)
(* Payloads.  A.create returns a str, B.create a one-row DataFrame and     *)
(* C.create a dict of its two arguments and its two parameters.            *)
(***************************************************************************)
PyStr(s) == [kind |-> "str", s |-> s]

DataFrame(cols, data) == [kind |-> "df", columns |-> cols, data |-> data]

StrObj(o) ==
    CASE o.kind = "str" -> o.s
      [] o.kind = "none" -> "None"
      [] o.kind = "df" ->
            Join("  ", o.columns) \o "\n"
                \o Join("  ", <<"0">> \o [i \in 1..Len(o.data) |-> Str(o.data[i])])

create(c, p, args) ==
    CASE c = "A" ->
            PyStr("I am the object A with params " \o Str(p.A1) \o ", "
                    \o Str(p.A2) \o ", " \o Str(p.A3))
      [] c = "B" -> DataFrame(<<"A3", "B1">>, <<p.A3, p.B1>>)
      [] c = "C" -> [kind |-> "dict", A |-> args.A, B |-> args.B,
                     C1 |-> p.C1, C2 |-> p.C2]

(***************************************************************************)
(* What save writes: A writes the text, B writes to_csv() (the index       *)
(* column first, every cell as text), C dumps JSON with str() of the two   *)
(* dependency payloads.                                                    *)
(***************************************************************************)
FileOf(c) == CASE c = "A" -> "A.txt" [] c = "B" -> "B.csv" [] c = "C" -> "C.csv"

Serialize(c, obj) ==
    CASE c = "A" -> [kind |-> "file", name |-> FileOf(c), text |-> obj.s]
      [] c = "B" -> [kind |-> "file", name |-> FileOf(c),
                     header |-> <<"">> \o obj.columns,
                     row |-> <<"0">> \o [i \in 1..Len(obj.data) |-> Str(obj.data[i])]]
      [] c = "C" -> [kind |-> "file", name |-> FileOf(c),
                     C1 |-> obj.C1, C2 |-> obj.C2,
                     A |-> StrObj(obj.A), B |-> StrObj(obj.B)]

Garbage(c) == [kind |-> "garbage", name |-> FileOf(c)]

(***************************************************************************)
(* load_from_file: A reads the text, B is read_csv() (an unnamed column    *)
(* becomes "Unnamed: 0", cells are parsed to numbers where they can be),   *)
(* C is json.load().                                                       *)
(***************************************************************************)
ParseCell(s) == IF s \in {"0", "1"} THEN IntVal(s) ELSE StrVal(s)

Deserialize(c, f) ==
    CASE c = "A" -> PyStr(f.text)
      [] c = "B" ->
            DataFrame([i \in 1..Len(f.header) |->
                          IF f.header[i] = "" THEN "Unnamed: 0" ELSE f.header[i]],
                      [i \in 1..Len(f.row) |-> ParseCell(f.row[i])])
      [] c = "C" -> [kind |-> "dict", A |-> PyStr(f.A), B |-> PyStr(f.B),
                     C1 |-> f.C1, C2 |-> f.C2]

(***************************************************************************)
(* The outcome of load_from_file(path) on a file system: FileNotFoundError *)
(* when the payload file is missing, another exception when it cannot be   *)
(* decoded, the payload otherwise.                                         *)
(***************************************************************************)
load_from_file(fs, c, path) ==
    LET f == fs.content[path].payload
    IN  IF ~Exists(fs, path) \/ f = None \/ f.name # FileOf(c)
        THEN [err |-> "FileNotFoundError", obj |-> None]
        ELSE IF f.kind = "garbage"
        THEN [err |-> "OtherError", obj |-> None]
        ELSE [err |-> "none", obj |-> Deserialize(c, f)]

(***************************************************************************)
(* State of the caching program.  The folders of a type live in their own  *)
(* directory <CACHE_FOLDER>/<name>, so a run is followed for one type,     *)
(* cut.  inst tells whether an instance of cut has been constructed; the   *)
(* script assigns to the fields of the Params object its instances refer   *)
(* to between the calls, so every call comes with the params as they are   *)
(* at that moment.  last is what the last statement did and returned.      *)
(***************************************************************************)
FS == [listing |-> listing, content |-> content]

NoCall ==
    [op |-> "none", cls |-> "", params |-> Params, path |-> <<>>, err |-> "none",
     obj |-> None, made |-> FALSE, loaded |-> FALSE, created |-> FALSE,
     saved |-> FALSE, savedTo |-> <<>>]

ProcIds == {1, 2}

RegistryPaths == {"./tests/A_test.toml", "./tests/A_test.txt"}

IdleProc ==
    [pc |-> "idle", site |-> "none", params |-> Params, path |-> <<>>,
     missed |-> FALSE, made |-> FALSE, obj |-> None, loaded |-> FALSE,
     created |-> FALSE, saved |-> FALSE, savedTo |-> <<>>, err |-> "none"]

InitCache ==
    /\ cut \in Classes
    /\ env = [environ |-> None, dot_env |-> Root, example_env |-> None]
    /\ listing = [c \in Classes |-> <<>>]
    /\ content = [x \in {} |-> NoFolder]
    /\ inst = FALSE
    /\ last = NoCall
    /\ calls = 0
    /\ proc = [i \in ProcIds |-> IdleProc]
    /\ registry = [path \in RegistryPaths |-> None]
    /\ nested = {}

(***************************************************************************)
(* The values params takes in a run: the defaults with at most one of the  *)
(* parameters A1, B1 assigned another string, as the script does (A1 is    *)
(* tracked by A and C, B1 by B and C), under a run tag that is empty, a    *)
(* plain word or the digest of the type for the default parameters.        *)
(***************************************************************************)
Assigned == {"A1", "B1"}

Texts == {StrVal("x"), StrVal("1")}

HashTags(c) == {<<hash(c, Params)>>}

ParamSets(c) ==
    {[[Params EXCEPT ![f] = v] EXCEPT !.run_tag = t] :
        f \in Assigned, v \in Texts, t \in PlainTags \cup HashTags(c)}

(***************************************************************************)
(* A statement that stops at the ValueError of cache_folder: nothing has   *)
(* been looked up or written.                                              *)
(***************************************************************************)
ConfigError(op, p) ==
    [NoCall EXCEPT !.op = op, !.params = p, !.err = "ValueError"]

(***************************************************************************)
(* Positions at which a new folder may show up in the listing of c.        *)
(***************************************************************************)
Slots(fs, c, p) == IF Found(fs, c, p) THEN {1} ELSE 1..(Len(fs.listing[c]) + 1)

(***************************************************************************)
(* Cacheable.__init__: keeps params and evaluates cache_folder.            *)
(***************************************************************************)
New(c, p) ==
    /\ calls < MaxCalls
    /\ c = cut
    /\ IF config_missing(env)
       THEN /\ last' = ConfigError("init", p)
            /\ UNCHANGED <<listing, content, inst>>
       ELSE /\ \E k \in Slots(FS, c, p) :
                  LET r == cache_folder(FS, c, p, k)
                  IN  /\ listing' = r.fs.listing
                      /\ content' = r.fs.content
                      /\ last' = [NoCall EXCEPT !.op = "init", !.params = p,
                                                 !.path = r.path, !.made = r.made]
            /\ inst' = TRUE
    /\ calls' = calls + 1
    /\ UNCHANGED <<cut, hashVars, env, toolVars>>

(***************************************************************************)
(* The positional arguments of compute(): the script passes the payloads   *)
(* of A and B for the same params to C.compute and nothing to the others.  *)
(* compute hands them on to create, which raises TypeError when they are   *)
(* not the positional arguments the type's create takes.                   *)
(***************************************************************************)
Payloads(p) == [A |-> create("A", p, None), B |-> create("B", p, None)]

Args(c, p) == IF c = "C" THEN Payloads(p) ELSE None

WrongArgs(c, p) == IF c = "C" THEN None ELSE Payloads(p)

create_raises(c, args) == (c = "C") # (args # None)

(***************************************************************************)
(* save() of the concrete types: evaluates cache_folder again and writes   *)
(* the payload file there.                                                 *)
(***************************************************************************)
SaveUnderOwnTag(fs, c, p, obj, k) ==
    LET path == folder_name(c, p)
        fs1 == mkdir(fs, c, path, k)
    IN  [path |-> path,
         fs |-> [fs1 EXCEPT !.content[path].payload = Serialize(c, obj)]]

save(fs, c, p, obj, k) ==
    LET r == cache_folder(fs, c, p, k)
    IN  [path |-> r.path,
         fs |-> [r.fs EXCEPT !.content[r.path].payload = Serialize(c, obj)]]

(***************************************************************************)
(* Cacheable.compute as a function of the file system: resolve, try to     *)
(* load, treat FileNotFoundError as a miss, otherwise create and save.     *)
(***************************************************************************)
ComputeAnyFailureIsMiss(fs, c, p, args, k) ==
    LET r == cache_folder(fs, c, p, k)
        l == load_from_file(r.fs, c, r.path)
        out == [NoCall EXCEPT !.op = "compute", !.params = p,
                               !.path = r.path, !.made = r.made]
    IN  IF Exists(r.fs, r.path) /\ l.err = "none"
        THEN [fs |-> r.fs,
              out |-> [out EXCEPT !.loaded = TRUE, !.obj = l.obj]]
        ELSE IF create_raises(c, args)
        THEN [fs |-> r.fs, out |-> [out EXCEPT !.err = "TypeError"]]
        ELSE LET obj == create(c, p, args)
                 s == save(r.fs, c, p, obj, k)
             IN  [fs |-> s.fs,
                  out |-> [out EXCEPT !.created = TRUE, !.saved = TRUE,
                                      !.savedTo = s.path, !.obj = obj]]

ComputeKeepsFailedCreate(fs, c, p, args, k) ==
    LET r == cache_folder(fs, c, p, k)
        l == load_from_file(r.fs, c, r.path)
        out == [NoCall EXCEPT !.op = "compute", !.params = p,
                               !.path = r.path, !.made = r.made]
    IN  IF Exists(r.fs, r.path) /\ l.err = "none"
        THEN [fs |-> r.fs,
              out |-> [out EXCEPT !.loaded = TRUE, !.obj = l.obj]]
        ELSE IF Exists(r.fs, r.path) /\ l.err # "FileNotFoundError"
        THEN [fs |-> r.fs, out |-> [out EXCEPT !.err = l.err]]
        ELSE IF create_raises(c, args)
        THEN [fs |-> [r.fs EXCEPT !.content[r.path].payload = Garbage(c)],
              out |-> [out EXCEPT !.err = "TypeError"]]
        ELSE LET obj == create(c, p, args)
                 s == save(r.fs, c, p, obj, k)
             IN  [fs |-> s.fs,
                  out |-> [out EXCEPT !.created = TRUE, !.saved = TRUE,
                                      !.savedTo = s.path, !.obj = obj]]

compute(fs, c, p, args, k) ==
    LET r == cache_folder(fs, c, p, k)
        l == load_from_file(r.fs, c, r.path)
        out == [NoCall EXCEPT !.op = "compute", !.params = p,
                               !.path = r.path, !.made = r.made]
    IN  IF Exists(r.fs, r.path) /\ l.err = "none"
        THEN [fs |-> r.fs,
              out |-> [out EXCEPT !.loaded = TRUE, !.obj = l.obj]]
        ELSE IF Exists(r.fs, r.path) /\ l.err # "FileNotFoundError"
        THEN [fs |-> r.fs, out |-> [out EXCEPT !.err = l.err]]
        ELSE IF create_raises(c, args)
        THEN [fs |-> r.fs, out |-> [out EXCEPT !.err = "TypeError"]]
        ELSE LET obj == create(c, p, args)
                 s == save(r.fs, c, p, obj, k)
             IN  [fs |-> s.fs,
                  out |-> [out EXCEPT !.created = TRUE, !.saved = TRUE,
                                      !.savedTo = s.path, !.obj = obj]]

Compute(c, p, args) ==
    /\ calls < MaxCalls
    /\ c = cut
    /\ inst
    /\ IF config_missing(env)
       THEN /\ last' = ConfigError("compute", p)
            /\ UNCHANGED <<listing, content>>
       ELSE \E k \in Slots(FS, c, p) :
               LET r == compute(FS, c, p, args, k)
               IN  /\ listing' = r.fs.listing
                   /\ content' = r.fs.content
                   /\ last' = r.out
    /\ calls' = calls + 1
    /\ UNCHANGED <<cut, inst, hashVars, env, toolVars>>

(***************************************************************************)
(* Cacheable.load: resolve and load; FileNotFoundError is raised again     *)
(* with the "Please run compute() first." message.                         *)
(***************************************************************************)
LoadOrCompute(fs, c, p, k) ==
    LET r == cache_folder(fs, c, p, k)
        l == load_from_file(r.fs, c, r.path)
        out == [NoCall EXCEPT !.op = "load", !.params = p, !.path = r.path,
                               !.made = r.made]
    IN  IF l.err = "none"
        THEN [fs |-> r.fs, out |-> [out EXCEPT !.loaded = TRUE, !.obj = l.obj]]
        ELSE IF l.err = "FileNotFoundError"
        THEN LET obj == create(c, p, Args(c, p))
                 s == save(r.fs, c, p, obj, k)
             IN  [fs |-> s.fs,
                  out |-> [out EXCEPT !.created = TRUE, !.saved = TRUE,
                                      !.savedTo = s.path, !.obj = obj]]
        ELSE [fs |-> r.fs, out |-> [out EXCEPT !.err = l.err]]

load(fs, c, p, k) ==
    LET r == cache_folder(fs, c, p, k)
        l == load_from_file(r.fs, c, r.path)
        out == [NoCall EXCEPT !.op = "load", !.params = p,
                               !.path = r.path, !.made = r.made]
    IN  IF l.err = "none"
        THEN [fs |-> r.fs, out |-> [out EXCEPT !.loaded = TRUE, !.obj = l.obj]]
        ELSE [fs |-> r.fs, out |-> [out EXCEPT !.err = l.err]]

Load(c, p) ==
    /\ calls < MaxCalls
    /\ c = cut
    /\ inst
    /\ IF config_missing(env)
       THEN /\ last' = ConfigError("load", p)
            /\ UNCHANGED <<listing, content>>
       ELSE \E k \in Slots(FS, c, p) :
               LET r == load(FS, c, p, k)
               IN  /\ listing' = r.fs.listing
                   /\ content' = r.fs.content
                   /\ last' = r.out
    /\ calls' = calls + 1
    /\ UNCHANGED <<cut, inst, hashVars, env, toolVars>>

(***************************************************************************)
(* The payload file of a folder is overwritten from outside with bytes     *)
(* that load_from_file cannot decode (a truncated or half-written file).   *)
(***************************************************************************)
CorruptPayload(path) ==
    /\ content[path].payload # None
    /\ content[path].payload.kind # "garbage"
    /\ content' = [content EXCEPT ![path].payload = Garbage(path[1])]
    /\ last' = [NoCall EXCEPT !.op = "corrupt", !.path = path]
    /\ UNCHANGED <<cut, listing, inst, calls, hashVars, env, toolVars>>

NextCache ==
    \/ \E p \in ParamSets(cut) : New(cut, p)
    \/ \E p \in ParamSets(cut) : Compute(cut, p, Args(cut, p))
    \/ \E p \in ParamSets(cut) : Load(cut, p)
    \/ \E path \in DOMAIN content : CorruptPayload(path)

(***************************************************************************)
(* Calls that fail.  The configuration changes between the calls           *)
(* (os.environ, .env and example.env are read anew by every evaluation of  *)
(* cache_folder), and compute() is also called with positional arguments   *)
(* that create does not take.  The params of these runs are the defaults   *)
(* under the plain run tags and one with other values of A1, B1 and C1.    *)
(***************************************************************************)
SmallParamSets ==
    {[Params EXCEPT !.run_tag = t] : t \in PlainTags}
        \cup {[Params EXCEPT !.A1 = StrVal("1"), !.B1 = StrVal("1"),
                             !.C1 = StrVal("1")]}

SetConfig(src, v) ==
    /\ env[src] # v
    /\ env' = [env EXCEPT ![src] = v]
    /\ UNCHANGED <<cacheVars, hashVars, toolVars>>

NextFail ==
    \/ \E p \in SmallParamSets : New(cut, p)
    \/ \E p \in SmallParamSets : Compute(cut, p, Args(cut, p))
    \/ \E p \in SmallParamSets : Compute(cut, p, WrongArgs(cut, p))
    \/ \E p \in SmallParamSets : Load(cut, p)
    \/ \E src \in Sources : \E v \in {None, Root} : SetConfig(src, v)

(***************************************************************************)
(* The registry (section 4.4 of the spec; its code is not in the source    *)
(* files at hand).  register(path, comment) on an instance that has        *)
(* computed its payload: a path without the structured-metadata extension  *)
(* is rejected before any I/O; otherwise the entry is written to path,     *)
(* over an entry that is there.  It records the name, the fingerprint, the *)
(* comment, the run tag, the cache folder, who and when, and the revision  *)
(* and remote of the source control when they can be found (the keys are   *)
(* there in any case).  load_from_register(path) reads the entry and loads *)
(* the payload from the stored cache folder, without fingerprinting.       *)
(***************************************************************************)
Recognized(path) == path = "./tests/A_test.toml"

Comments == {"This is a registered A object"}

Git == {None, [kind |-> "git", commit |-> "c0ffee", repo |-> "origin"]}

RegistryEntry(c, l, comment, git) ==
    [object_name |-> Decl(c).name,
     hash |-> hash(c, l.params),
     comment |-> comment,
     run_tag |-> l.params.run_tag,
     cache_folder |-> l.path,
     created_at |-> "now",
     created_by |-> "user",
     git_commit |-> IF git = None THEN "" ELSE git.commit,
     git_repo |-> IF git = None THEN "" ELSE git.repo]

register(reg, c, l, path, comment, git) ==
    IF ~Recognized(path)
    THEN [reg |-> reg, err |-> "InvalidRegistryPath"]
    ELSE [reg |-> [reg EXCEPT ![path] = RegistryEntry(c, l, comment, git)],
          err |-> "none"]

load_from_register(reg, fs, c, path) ==
    IF reg[path] = None
    THEN [err |-> "FileNotFoundError", obj |-> None, path |-> <<>>]
    ELSE LET l == load_from_file(fs, c, reg[path].cache_folder)
         IN  [err |-> l.err, obj |-> l.obj, path |-> reg[path].cache_folder]

Register(path, comment, git) ==
    /\ last.op = "compute" /\ last.obj # None
    /\ LET r == register(registry, cut, last, path, comment, git)
       IN  /\ registry' = r.reg
           /\ last' = [last EXCEPT !.op = "register", !.err = r.err]
    /\ UNCHANGED <<cut, listing, content, inst, calls, hashVars, env, proc,
                   nested>>

LoadFromRegister(path) ==
    /\ LET r == load_from_register(registry, FS, cut, path)
       IN  last' = [NoCall EXCEPT !.op = "load_from_register", !.err = r.err,
                                  !.obj = r.obj, !.path = r.path,
                                  !.loaded = (r.err = "none")]
    /\ UNCHANGED <<cut, listing, content, inst, calls, hashVars, env,
                   registry, proc, nested>>

NextRegistry ==
    \/ \E p \in SmallParamSets : New(cut, p)
    \/ \E p \in SmallParamSets : Compute(cut, p, Args(cut, p))
    \/ \E p \in SmallParamSets : Load(cut, p)
    \/ \E path \in RegistryPaths, comment \in Comments, git \in Git :
          Register(path, comment, git)
    \/ \E path \in RegistryPaths : LoadFromRegister(path)

(***************************************************************************)
(* Two operating-system processes on the same cache root.  Each runs the   *)
(* statement cut(params).compute(..) with its own Params object; a step is *)
(* one file-system operation of the code, so the lookup, the mkdir, the    *)
(* write of params.json, the read of the payload and its write are         *)
(* separate steps.  cache_folder is evaluated three times: by __init__, at *)
(* the start of compute and by save; site tells which evaluation is        *)
(* running and where it returns to.  Both processes use the tracked values *)
(* of Params, under any of the plain run tags.                             *)
(***************************************************************************)
RaceParamSets == {[Params EXCEPT !.run_tag = t] : t \in PlainTags}

Returned(site) ==
    CASE site = "init" -> [pc |-> "find", site |-> "compute"]
      [] site = "compute" -> [pc |-> "load", site |-> "compute"]
      [] site = "save" -> [pc |-> "write", site |-> "save"]

Start(i, p) ==
    /\ proc[i].pc = "idle"
    /\ ~config_missing(env)
    /\ proc' = [proc EXCEPT ![i] = [IdleProc EXCEPT !.pc = "find",
                                                    !.site = "init",
                                                    !.params = p]]
    /\ UNCHANGED <<cacheVars, hashVars, env, registry, nested>>

(* existing_folder = self.find_cache_folder(object_folder) *)
Find(i) ==
    LET me == proc[i]
        ret == Returned(me.site)
    IN  /\ me.pc = "find"
        /\ proc' = [proc EXCEPT ![i] =
                      IF Found(FS, cut, me.params)
                      THEN [me EXCEPT !.path = find_cache_folder(FS, cut, me.params),
                                     !.pc = ret.pc, !.site = ret.site]
                      ELSE [me EXCEPT !.path = folder_name(cut, me.params),
                                     !.missed = TRUE, !.pc = "mkdir"]]
        /\ UNCHANGED <<cacheVars, hashVars, env, registry, nested>>

(* path.mkdir(parents=True, exist_ok=True) *)
MkdirIfNoneMatches(i) ==
    LET me == proc[i]
        hit == Found(FS, cut, me.params)
        path == IF hit THEN find_cache_folder(FS, cut, me.params) ELSE me.path
    IN  /\ me.pc = "mkdir"
        /\ \E k \in 1..(Len(listing[cut]) + 1) :
              LET fs1 == IF hit THEN FS ELSE mkdir(FS, cut, path, k)
              IN  /\ listing' = fs1.listing
                  /\ content' = fs1.content
        /\ proc' = [proc EXCEPT ![i] =
                      [me EXCEPT !.path = path, !.made = ~hit, !.pc = "snap"]]
        /\ UNCHANGED <<cut, inst, last, calls, hashVars, env, registry, nested>>

Mkdir(i) ==
    LET me == proc[i]
    IN  /\ me.pc = "mkdir"
        /\ \E k \in 1..(Len(listing[cut]) + 1) :
              LET fs1 == mkdir(FS, cut, me.path, k)
              IN  /\ listing' = fs1.listing
                  /\ content' = fs1.content
        /\ proc' = [proc EXCEPT ![i] =
                      [me EXCEPT !.made = ~Exists(FS, me.path), !.pc = "snap"]]
        /\ UNCHANGED <<cut, inst, last, calls, hashVars, env, registry, nested>>

(* if not param_cache_path.exists(): params_to_json(self.params, ..) *)
Snap(i) ==
    LET me == proc[i]
        ret == Returned(me.site)
    IN  /\ me.pc = "snap"
        /\ content' = IF content[me.path].snapshot = None
                      THEN [content EXCEPT ![me.path].snapshot =
                                                params_to_json(me.params)]
                      ELSE content
        /\ proc' = [proc EXCEPT ![i] = [me EXCEPT !.pc = ret.pc,
                                                  !.site = ret.site]]
        /\ UNCHANGED <<cut, listing, inst, last, calls, hashVars, env,
                       registry, nested>>

(* if cache_folder.exists(): try: self.obj = self.load_from_file(..) *)
LoadStep(i) ==
    LET me == proc[i]
        l == load_from_file(FS, cut, me.path)
    IN  /\ me.pc = "load"
        /\ proc' = [proc EXCEPT ![i] =
                      IF Exists(FS, me.path) /\ l.err = "none"
                      THEN [me EXCEPT !.loaded = TRUE, !.obj = l.obj,
                                     !.pc = "done"]
                      ELSE IF Exists(FS, me.path) /\ l.err # "FileNotFoundError"
                      THEN [me EXCEPT !.err = l.err, !.pc = "done"]
                      ELSE [me EXCEPT !.pc = "create"]]
        /\ UNCHANGED <<cacheVars, hashVars, env, registry, nested>>

(* self.obj = self.create(..); self.save() begins *)
CreateStep(i) ==
    LET me == proc[i]
    IN  /\ me.pc = "create"
        /\ proc' = [proc EXCEPT ![i] =
                      [me EXCEPT !.obj = create(cut, me.params,
                                                Args(cut, me.params)),
                                 !.created = TRUE,
                                 !.site = "save", !.pc = "find"]]
        /\ UNCHANGED <<cacheVars, hashVars, env, registry, nested>>

(* the write of the payload file in save() *)
Write(i) ==
    LET me == proc[i]
    IN  /\ me.pc = "write"
        /\ content' = [content EXCEPT ![me.path].payload =
                                          Serialize(cut, me.obj)]
        /\ proc' = [proc EXCEPT ![i] = [me EXCEPT !.saved = TRUE,
                                                  !.savedTo = me.path,
                                                  !.pc = "done"]]
        /\ UNCHANGED <<cut, listing, inst, last, calls, hashVars, env,
                       registry, nested>>

NextRace ==
    \/ \E i \in ProcIds : \E p \in RaceParamSets : Start(i, p)
    \/ \E i \in ProcIds : Find(i)
    \/ \E i \in ProcIds : Mkdir(i)
    \/ \E i \in ProcIds : Snap(i)
    \/ \E i \in ProcIds : LoadStep(i)
    \/ \E i \in ProcIds : CreateStep(i)
    \/ \E i \in ProcIds : Write(i)

(***************************************************************************)
(* Fingerprinting on its own.  hd1 and hd2 are two type declarations, hp   *)
(* and hq two parameter sets, fp1 = hd1.hash(hp) and fp2 = hd2.hash(hq).   *)
(* The declarations are those of A, B and C, the same attributes declared  *)
(* in another order, and a type D that depends on C.                       *)
(***************************************************************************)
DeclD == [name |-> "D", depends_on_obj |-> <<"C">>, depends_on_params |-> <<>>]

Reorder(s, perm) == [i \in 1..Len(s) |-> s[perm[i]]]

Perms(n) == {f \in [1..n -> 1..n] : \A i, j \in 1..n : f[i] = f[j] => i = j}

Reorderings(d) ==
    {[name |-> d.name,
      depends_on_obj |-> Reorder(d.depends_on_obj, po),
      depends_on_params |-> Reorder(d.depends_on_params, pp)] :
        po \in Perms(Len(d.depends_on_obj)),
        pp \in Perms(Len(d.depends_on_params))}

HashDecls == {DeclA, DeclB, DeclC, DeclD}

Range(s) == {s[i] : i \in 1..Len(s)}

RECURSIVE Tracked(_)
Tracked(d) ==
    Range(d.depends_on_params)
        \cup UNION {Tracked(RepoDecls[c]) : c \in Range(d.depends_on_obj)}

DepTracked(d) == UNION {Tracked(RepoDecls[c]) : c \in Range(d.depends_on_obj)}

Fields == ParamNames \cup {"run_tag"}

FieldValues(f) == IF f = "run_tag" THEN PlainTags ELSE Values

InitHash ==
    /\ hp = Params /\ hq = Params
    /\ hd1 = DeclA /\ hd2 = DeclA
    /\ fp1 = HashDecl(DeclA, RepoDecls, Params)
    /\ fp2 = HashDecl(DeclA, RepoDecls, Params)

(***************************************************************************)
(* cls.hash(params) for both sides, after one of: both parameter sets get  *)
(* a new value for A1, B1 or C1; the second set becomes the first with one *)
(* field assigned; the two types are chosen.                               *)
(***************************************************************************)
HashBoth(d1, d2, p, q) ==
    /\ hd1' = d1 /\ hd2' = d2
    /\ hp' = p /\ hq' = q
    /\ fp1' = HashDecl(d1, RepoDecls, p)
    /\ fp2' = HashDecl(d2, RepoDecls, q)
    /\ UNCHANGED <<cacheVars, env, toolVars>>

HashAssignBoth(f, v) ==
    /\ hp[f] # v
    /\ HashBoth(hd1, hd2, [hp EXCEPT ![f] = v], [hp EXCEPT ![f] = v])

HashAssignSecond(f, v) ==
    /\ hp[f] # v
    /\ HashBoth(hd1, hd2, hp, [hp EXCEPT ![f] = v])

HashTypes(d1, d2) ==
    /\ <<d1, d2>> # <<hd1, hd2>>
    /\ HashBoth(d1, d2, hp, hq)

NextHash ==
    \/ \E f \in {"A1", "B1", "C1"}, v \in Values : HashAssignBoth(f, v)
    \/ \E f \in Fields : \E v \in FieldValues(f) : HashAssignSecond(f, v)
    \/ \E d1 \in HashDecls : \E d2 \in Reorderings(d1) : HashTypes(d1, d2)

(***************************************************************************)
(* The classmethod fix_cache_folder(old_folder), called on the type of the *)
(* folder or on the base class Cacheable (no name, no dependencies, no     *)
(* tracked parameters: its hash is the digest of the empty string).        *)
(*                                                                         *)
(* params_from_json is AbstractParams.from_json: AbstractParams declares   *)
(* no fields and keys that are not fields are skipped, so the object it    *)
(* returns has none of the attributes the snapshot holds, and hash raises  *)
(* AttributeError at the first getattr for a tracked parameter.            *)
(*                                                                         *)
(* shutil.move(old, new): a rename when new does not exist; when new is an *)
(* existing folder, old is moved into it (new/<old name>), and shutil      *)
(* raises Error when that exists too.  nested holds the folders that were  *)
(* moved into another one: where they are, their name and their files.     *)
(***************************************************************************)
DeclBase == [name |-> "", depends_on_obj |-> <<>>, depends_on_params |-> <<>>]

FixClasses(c) == {c, "Cacheable"}

DeclOf(cls) == IF cls = "Cacheable" THEN DeclBase ELSE Decl(cls)

params_from_json(json) == [kind |-> "AbstractParams"]

HashLoaded(cls, q) ==
    IF \E f \in Tracked(DeclOf(cls)) : f \notin DOMAIN q
    THEN [err |-> "AttributeError", h |-> ""]
    ELSE [err |-> "none", h |-> HashDecl(DeclOf(cls), RepoDecls, q)]

Remove(s, x) == SelectSeq(s, LAMBDA y : y # x)

shutil_move(fs, nst, c, old, new, k) ==
    IF ~Exists(fs, new)
    THEN [err |-> "none",
          fs |-> [listing |-> [fs.listing EXCEPT ![c] =
                                  Insert(Remove(@, old), k, new)],
                  content |-> [x \in (DOMAIN fs.content \ {old}) \cup {new} |->
                                  IF x = new THEN fs.content[old]
                                  ELSE fs.content[x]]],
          nested |-> nst]
    ELSE IF \E n \in nst : n.at = new /\ n.name = old
    THEN [err |-> "shutil.Error", fs |-> fs, nested |-> nst]
    ELSE [err |-> "none",
          fs |-> [listing |-> [fs.listing EXCEPT ![c] = Remove(@, old)],
                  content |-> [x \in DOMAIN fs.content \ {old} |->
                                  fs.content[x]]],
          nested |-> nst \cup {[at |-> new, name |-> old,
                                files |-> fs.content[old]]}]

fix_cache_folder(fs, nst, cls, c, old_folder, k) ==
    LET same == [err |-> "none", fs |-> fs, nested |-> nst]
    IN  IF ~Exists(fs, old_folder) \/ fs.content[old_folder].snapshot = None
        THEN [same EXCEPT !.err = "FileNotFoundError"]
        ELSE LET params == params_from_json(fs.content[old_folder].snapshot)
                 old_hash == old_folder[Len(old_folder)]
                 new == HashLoaded(cls, params)
                 old_components == SubSeq(old_folder, 1, Len(old_folder) - 1)
                 new_folder_name == old_components \o <<new.h>>
             IN  IF new.err # "none" THEN [same EXCEPT !.err = new.err]
                 ELSE IF old_hash = new.h THEN same
                 ELSE shutil_move(fs, nst, c, old_folder, new_folder_name, k)

(***************************************************************************)
(* The folders fix_cache_folder is called on: those of the type and one    *)
(* that does not exist.                                                    *)
(***************************************************************************)
FixTargets == DOMAIN content \cup {<<cut, "gone">>}

FixCacheFolder(cls, old_folder) ==
    /\ \E k \in 1..Len(listing[cut]) \cup {1} :
          LET r == fix_cache_folder(FS, nested, cls, cut, old_folder, k)
          IN  /\ listing' = r.fs.listing
              /\ content' = r.fs.content
              /\ nested' = r.nested
              /\ last' = [NoCall EXCEPT !.op = "fix", !.cls = cls,
                                         !.path = old_folder, !.err = r.err]
    /\ UNCHANGED <<cut, inst, calls, hashVars, env, proc, registry>>

NextFix ==
    \/ \E p \in SmallParamSets : New(cut, p)
    \/ \E p \in SmallParamSets : Compute(cut, p, Args(cut, p))
    \/ \E p \in SmallParamSets : Load(cut, p)
    \/ \E cls \in FixClasses(cut) : \E old_folder \in FixTargets :
          FixCacheFolder(cls, old_folder)

Init == InitCache /\ InitHash

Next == NextCache

Spec == Init /\ [][Next]_vars

SpecHash == Init /\ [][NextHash]_vars

SpecRace == Init /\ [][NextRace]_vars

SpecFail == Init /\ [][NextFail]_vars

SpecRegistry == Init /\ [][NextRegistry]_vars

SpecFix == Init /\ [][NextFix]_vars

(***************************************************************************)
(* Notions the properties are stated with.                                 *)
(***************************************************************************)
IsCall(l) == l.op \in {"init", "compute", "load"}

Fingerprint(l) == hash(cut, l.params)

TagOf(folder) == SubSeq(folder, 2, Len(folder) - 1)

(* folder is named <name>[_<tag>]_<h> *)
FolderOf(folder, name, h) ==
    /\ Len(folder) >= 2
    /\ folder[1] = name
    /\ folder[Len(folder)] = h

HasPayload(path) == path \in DOMAIN content /\ content[path].payload # None

SameTracked(d, p, q) == \A f \in Tracked(d) : p[f] = q[f]

(***************************************************************************)
(* C1: once a folder named for (name, fingerprint) exists, every call that *)
(* resolves the same name and tracked values under another run tag returns *)
(* that folder and makes no folder.                                        *)
(***************************************************************************)
C1_TagInsensitive ==
    [][\A f \in Range(listing[cut]) :
          (/\ calls' = calls + 1
           /\ IsCall(last')
           /\ FolderOf(f, cut, Fingerprint(last'))
           /\ TagOf(f) # last'.params.run_tag)
          => (last'.path = f /\ listing' = listing)]_vars

(***************************************************************************)
(* C2: a compute() that follows a compute() of the create path, on the     *)
(* same tracked values under any run tag, returns an equal payload through *)
(* load_from_file and runs neither create nor save.                        *)
(***************************************************************************)
C2_IdempotentCompute ==
    [][(/\ last.op = "compute" /\ last.created
        /\ calls' = calls + 1
        /\ last'.op = "compute"
        /\ SameTracked(Decl(cut), last.params, last'.params))
       => (/\ last'.loaded /\ ~last'.created /\ ~last'.saved
           /\ last'.obj = last.obj)]_vars

(***************************************************************************)
(* C3: save writes the payload into the folder the resolution returns, and *)
(* the next load() or compute() with the same name and fingerprint         *)
(* resolves to that folder and loads the payload from it.                  *)
(***************************************************************************)
C3_SaveVisible ==
    [][(/\ last.op = "compute" /\ last.created
        /\ calls' = calls + 1
        /\ last'.op \in {"load", "compute"}
        /\ Fingerprint(last') = Fingerprint(last))
       => (/\ last.savedTo = last.path
           /\ content[last.path].payload = Serialize(cut, last.obj)
           /\ last'.path = last.savedTo
           /\ last'.loaded /\ ~last'.created
           /\ last'.obj = Deserialize(cut, content[last.savedTo].payload))]_vars

C3_Witness ==
    /\ last.op = "load" /\ last.loaded
    /\ TagOf(last.path) # last.params.run_tag

(***************************************************************************)
(* C4: in compute(), a failure of load_from_file other than                *)
(* FileNotFoundError reaches the caller, with no create, no save and no    *)
(* file written; the create path is taken only when the payload file is    *)
(* not found.                                                              *)
(***************************************************************************)
C4_OtherFailurePropagates ==
    [][(calls' = calls + 1 /\ last'.op = "compute")
       => (/\ (HasPayload(last'.path) /\ content[last'.path].payload.kind = "garbage")
                => (/\ last'.err = "OtherError"
                    /\ ~last'.created /\ ~last'.saved /\ ~last'.loaded
                    /\ content' = content)
           /\ last'.created => ~HasPayload(last'.path))]_vars

C4_Witness == last.op = "compute" /\ last.err = "OtherError"

(***************************************************************************)
(* C5: load() on a folder without payload raises FileNotFoundError and     *)
(* runs neither create nor save; no payload file is written.               *)
(***************************************************************************)
C5_StrictLoad ==
    [][(calls' = calls + 1 /\ last'.op = "load" /\ ~HasPayload(last'.path))
       => (/\ last'.err = "FileNotFoundError"
           /\ ~last'.created /\ ~last'.saved /\ ~last'.loaded
           /\ \A x \in DOMAIN content' :
                 content'[x].payload =
                    IF x \in DOMAIN content THEN content[x].payload ELSE None)]_vars

C5_Witness ==
    /\ last.op = "load" /\ last.err = "FileNotFoundError"
    /\ \E x \in DOMAIN content : content[x].payload # None

(***************************************************************************)
(* C6: two calls in a row whose tracked values differ in exactly one field *)
(* with another serialization have different fingerprints and resolve to   *)
(* different folders, and a compute() of the second does not load from the *)
(* folder of the first.                                                    *)
(***************************************************************************)
DifferInOne(d, p, q) ==
    \E f \in Tracked(d) :
        /\ Str(p[f]) # Str(q[f])
        /\ \A g \in Tracked(d) \ {f} : p[g] = q[g]

C6_FieldSensitive ==
    [][(/\ IsCall(last) /\ IsCall(last')
        /\ calls' = calls + 1
        /\ DifferInOne(Decl(cut), last.params, last'.params))
       => (/\ Fingerprint(last') # Fingerprint(last)
           /\ last'.path # last.path
           /\ (last'.op = "compute" /\ last.created) => last'.created)]_vars

(***************************************************************************)
(* C7: for a type with dependencies, changing the value of a field tracked *)
(* by a dependency while the type's own fields stay the same changes the   *)
(* fingerprint.                                                            *)
(***************************************************************************)
OwnFieldsSame == \A g \in Range(hd1.depends_on_params) : hp[g] = hq[g]

C7_DependencyPropagation ==
    (/\ hd1 = hd2
     /\ \E f \in DepTracked(hd1) : hp[f] # hq[f]
     /\ OwnFieldsSame)
    => fp1 # fp2

(* C7 as amended: ... to a value that str() renders differently ... *)
C7_DependencyPropagationStr ==
    (/\ hd1 = hd2
     /\ \E f \in DepTracked(hd1) : Str(hp[f]) # Str(hq[f])
     /\ OwnFieldsSame)
    => fp1 # fp2

C7_Witness ==
    /\ hd1 = DeclD /\ hd2 = DeclD
    /\ Str(hp.A1) # Str(hq.A1)
    /\ fp1 # fp2

(***************************************************************************)
(* C8: two types that declare the same tracked fields and dependencies in  *)
(* different orders have the same fingerprint for the same values.         *)
(***************************************************************************)
C8_OrderIndependent ==
    (/\ Range(hd1.depends_on_params) = Range(hd2.depends_on_params)
     /\ Range(hd1.depends_on_obj) = Range(hd2.depends_on_obj)
     /\ hp = hq)
    => fp1 = fp2

(***************************************************************************)
(* C9: parameter sets that agree on every field a type tracks, itself or   *)
(* through its dependencies, have the same fingerprint, whatever the run   *)
(* tag and the other parameters are.                                       *)
(***************************************************************************)
C9_TrackedOnly == (hd1 = hd2 /\ SameTracked(hd1, hp, hq)) => fp1 = fp2

C9_Witness ==
    /\ hd1 = hd2 /\ SameTracked(hd1, hp, hq)
    /\ hp.run_tag # hq.run_tag
    /\ fp1 = fp2

(***************************************************************************)
(* C10: a folder that the lookup returns is named <name>_..._<fingerprint> *)
(* for the fingerprint of the instance that looked it up.                  *)
(***************************************************************************)
C10_ExactFingerprint ==
    (IsCall(last) /\ ~last.made) => FolderOf(last.path, cut, Fingerprint(last))

(***************************************************************************)
(* C11: when several differently tagged folders of the same name and       *)
(* fingerprint exist, a resolution for that name and fingerprint returns   *)
(* one of them and makes no folder, and it returns the same one whatever   *)
(* the order of the directory listing and the run tag of the caller are.   *)
(***************************************************************************)
SameFingerprint(h) == {f \in Range(listing[cut]) : FolderOf(f, cut, h)}

Relisted(perm) ==
    [listing |-> [listing EXCEPT ![cut] = Reorder(@, perm)],
     content |-> content]

C11_DeterministicPick ==
    LET same == SameFingerprint(hash(cut, Params))
    IN  Cardinality(same) >= 2 =>
          \A q \in RaceParamSets : \A perm \in Perms(Len(listing[cut])) :
              LET r1 == cache_folder(FS, cut, q, 1)
                  r2 == cache_folder(Relisted(perm), cut, q, 1)
              IN  /\ r1.path \in same /\ ~r1.made
                  /\ r2.path = r1.path

(***************************************************************************)
(* C12: a resolution whose lookup finds no folder makes exactly one new    *)
(* folder, named name, then the run tag if it is not empty, then the       *)
(* fingerprint, and returns it with the parameter snapshot inside.         *)
(***************************************************************************)
Resolved(l) == IsCall(l) /\ l.err # "ValueError"

Unconfigured == \A src \in Sources : env[src] = None

C13_MissingConfigIsFatal ==
    [][(calls' = calls + 1 /\ Unconfigured)
       => (/\ last'.err = "ValueError"
           /\ listing' = listing /\ content' = content
           /\ ~last'.created /\ ~last'.saved /\ ~last'.loaded
           /\ last'.obj = None
           /\ inst' = inst)]_vars

C13_Witness ==
    /\ Unconfigured
    /\ last.op = "compute" /\ last.err = "ValueError"
    /\ \E x \in DOMAIN content : content[x].payload # None

(***************************************************************************)
(* C14: the cache_folder lookup of a construction and load() leave the     *)
(* file system as it is: no folder is made and no file is written.         *)
(***************************************************************************)
C14_ReadsNonMutating ==
    [][(calls' = calls + 1 /\ last'.op \in {"init", "load"})
       => (listing' = listing /\ content' = content)]_vars

(* C14 as amended: ... unchanged when the lookup finds a folder; when it   *)
(* finds none, the folder with its params.json is all that is added, and   *)
(* no payload is written.                                                  *)
C14_ReadsWriteNoPayload ==
    [][(calls' = calls + 1 /\ last'.op \in {"init", "load"})
       => IF Found(FS, cut, last'.params) \/ last'.err = "ValueError"
          THEN listing' = listing /\ content' = content
          ELSE /\ Len(listing'[cut]) = Len(listing[cut]) + 1
               /\ DOMAIN content' = DOMAIN content \cup {last'.path}
               /\ \A x \in DOMAIN content : content'[x] = content[x]
               /\ content'[last'.path].payload = None]_vars

C14_Witness ==
    /\ last.op = "load" /\ last.made
    /\ content[last.path].payload = None
    /\ \E x \in DOMAIN content : content[x].payload # None

(***************************************************************************)
(* C15: two processes that both found no folder for the same name and      *)
(* fingerprint, under different run tags, have each made a folder once     *)
(* they are past mkdir: two distinct folders carry the fingerprint.  There *)
(* is a run in which both then run create and save.                        *)
(***************************************************************************)
PastMkdir(i) == proc[i].missed /\ proc[i].pc # "mkdir"

C15_RaceMakesTwoFolders ==
    (/\ \A i \in ProcIds : PastMkdir(i)
     /\ proc[1].params.run_tag # proc[2].params.run_tag)
    => Cardinality(SameFingerprint(hash(cut, Params))) = 2

C15_Witness ==
    /\ \A i \in ProcIds : /\ proc[i].pc = "done" /\ proc[i].missed
                            /\ proc[i].created /\ proc[i].saved
    /\ Cardinality(SameFingerprint(hash(cut, Params))) = 2

(***************************************************************************)
(* C16: load_from_file on the folder save has just written returns a       *)
(* payload equal to the one saved.                                         *)
(***************************************************************************)
C16_PayloadRoundTrip ==
    (last.op = "compute" /\ last.saved)
    => load_from_file(FS, cut, last.savedTo) = [err |-> "none", obj |-> last.obj]

(***************************************************************************)
(* C17: register(path, comment) after compute() leaves an entry at path    *)
(* with the comment and the git_commit and git_repo keys, and              *)
(* load_from_register(path) right after it loads from the cache folder the *)
(* entry stores and returns a payload equal to the registered one.         *)
(***************************************************************************)
C17_RegistryRoundTrip ==
    [][(/\ last.op = "register" /\ last.err = "none"
        /\ last'.op = "load_from_register"
        /\ Recognized("./tests/A_test.toml")
        /\ last'.path # <<>>)
       => (/\ registry["./tests/A_test.toml"] # None
           /\ registry["./tests/A_test.toml"].comment \in Comments
           /\ registry["./tests/A_test.toml"].cache_folder = last.path
           /\ last'.path = last.path
           /\ last'.err = "none"
           /\ last'.obj = last.obj)]_vars

(***************************************************************************)
(* C18: after any sequence of constructions, compute() and load() calls of *)
(* one process on an empty cache root, no two folders of a type end in the *)
(* same fingerprint.                                                       *)
(***************************************************************************)
C18_OneFolderPerFingerprint ==
    /\ \A i, j \in 1..Len(listing[cut]) :
          i # j => listing[cut][i][Len(listing[cut][i])]
                     # listing[cut][j][Len(listing[cut][j])]
    /\ \A p \in ParamSets(cut) :
          Cardinality(SameFingerprint(hash(cut, p))) <= 1

C18_Witness ==
    /\ Resolved(last) /\ ~last.made
    /\ FolderOf(last.path, cut, Fingerprint(last))
    /\ TagOf(last.path) # last.params.run_tag
    /\ Len(listing[cut]) >= 2

(***************************************************************************)
(* C19: after a compute() in which create raised, save has not run, the    *)
(* folder is there with params.json and without payload, and the next call *)
(* for the same fingerprint runs create again if it is compute() and       *)
(* raises FileNotFoundError if it is load().                               *)
(***************************************************************************)
C19_FailedCreateNotCached ==
    [][(/\ last.op = "compute" /\ last.err = "TypeError"
        /\ calls' = calls + 1
        /\ last'.err # "ValueError"
        /\ Fingerprint(last') = Fingerprint(last))
       => (/\ ~last.saved /\ ~last.created
           /\ last.path \in Range(listing[cut])
           /\ content[last.path].snapshot # None
           /\ content[last.path].payload = None
           /\ last'.path = last.path
           /\ last'.op = "compute" =>
                 (last'.created \/ last'.err = "TypeError") /\ ~last'.loaded
           /\ last'.op = "load" =>
                 last'.err = "FileNotFoundError" /\ ~last'.loaded)]_vars

C19_Witness ==
    /\ last.op = "compute" /\ last.err = "TypeError"
    /\ ~last.made
    /\ content[last.path].snapshot # None
    /\ content[last.path].payload = None
    /\ \E x \in DOMAIN content : content[x].payload # None

(***************************************************************************)
(* C20: fix_cache_folder(old_folder) fails with FileNotFoundError and      *)
(* changes nothing when params.json is missing; changes nothing when the   *)
(* last component of the folder name is the fingerprint of the snapshot;   *)
(* otherwise the files of the folder are afterwards directly at the name   *)
(* with the last component replaced by that fingerprint, inside no other   *)
(* folder, and the old path is gone.                                       *)
(***************************************************************************)
FixStep == last'.op = "fix" /\ calls' = calls

SnapshotFingerprint(cls, old) ==
    HashDecl(DeclOf(cls), RepoDecls, content[old].snapshot.v)

C20_FixRenamesInPlace ==
    [][FixStep =>
         LET old == last'.path
             same == listing' = listing /\ content' = content
                        /\ nested' = nested
         IN  IF old \notin DOMAIN content \/ content[old].snapshot = None
             THEN last'.err = "FileNotFoundError" /\ same
             ELSE LET fp == SnapshotFingerprint(last'.cls, old)
                      new == SubSeq(old, 1, Len(old) - 1) \o <<fp>>
                  IN  IF old[Len(old)] = fp THEN same
                      ELSE /\ new \in DOMAIN content'
                           /\ new \in Range(listing'[cut])
                           /\ content'[new] = content[old]
                           /\ nested' = nested
                           /\ old \notin DOMAIN content'
                           /\ old \notin Range(listing'[cut])]_vars

====
